---- MODULE Spec2Model ----
(***************************************************************************)
(* Model of the Prozen plugin (src/main.ts): the preference store          *)
(* (loadSettings / saveSettings / the settings-tab onChange handlers), the *)
(* zen toggle controller (fullscreenMode, addStyles, removeStyles, the     *)
(* onfullscreenchange handler) and the auto-zen trigger                    *)
(* (handleEditorChange).                                                   *)
(*                                                                         *)
(* The host (Obsidian / the DOM) is the environment: which leaf is active, *)
(* what view each leaf shows, the asynchronous Fullscreen API (a call to   *)
(* requestFullscreen / exitFullscreen takes effect in a later task, and    *)
(* the fullscreenchange event is delivered in a later task still), and the *)
(* asynchronous completion of saveData.                                    *)
(*                                                                         *)
(* JavaScript numbers are carried as their decimal text ("0.75", "NaN"),   *)
(* so that  n + '%'  is string concatenation as in the source.             *)
(***************************************************************************)
EXTENDS Integers, Sequences, FiniteSets, TLC

VARIABLES
    loaded,        \* onload() has run loadSettings()
    settings,      \* Prozen.settings
    stored,        \* the host's persisted record (data.json): [present, rec]
    saves,         \* saveData() calls in flight, oldest first
    changes,       \* number of settings-panel changes made so far
    isInZenMode,   \* Prozen.isInZenMode
    view,          \* the view each leaf shows (fixed during a behaviour)
    hostReadable,  \* vault.getConfig('readableLineLength')
    active,        \* workspace.activeLeaf
    rootStyle,     \* the four custom properties on document.documentElement
    contentCls,    \* classList of view.contentEl, per leaf
    headerCls,     \* classList of view.headerEl, per leaf
    editorCls,     \* classList of view.editMode.editorEl, per leaf
    controlsCls,   \* classList of view.dataEngine.controlsEl, per leaf
    handlers,      \* leaves whose containerEl.onfullscreenchange is set
    fsStack,       \* the document's fullscreen elements, topmost last
    hostOps,       \* requestFullscreen/exitFullscreen calls not yet acted on
    events,        \* fullscreenchange events not yet delivered (their targets)
    zenLeaf,       \* history: the leaf addStyles was last applied to
    zenAt,         \* history: the value of changes at that call of addStyles
    triggered,     \* history: the auto-zen trigger has acted and ZenState has
                   \* not been set to Normal since by toggle() or the handler
    last,          \* history: the step just taken
    rt             \* history: progress of a toggle() / toggle() pair

vars == <<loaded, settings, stored, saves, changes, isInZenMode, view,
          hostReadable, active, rootStyle, contentCls, headerCls, editorCls,
          controlsCls, handlers, fsStack, hostOps, events, zenLeaf, zenAt,
          triggered, last, rt>>

prefVars == <<loaded, settings, stored, saves, changes>>
domVars  == <<rootStyle, contentCls, headerCls, editorCls, controlsCls>>
clsVars  == <<contentCls, headerCls, editorCls, controlsCls>>
hostVars == <<handlers, fsStack, hostOps, events>>

----------------------------------------------------------------------------
(* Bounds of the model. *)
MaxPending == 2     \* longest queue of host calls, and of undelivered events
MaxChanges == 1     \* settings-panel changes in one behaviour

----------------------------------------------------------------------------
(* PluginSettings and DEFAULT_SETTINGS. *)

BoolFields == {"showHeader", "showScroll", "showGraphControls",
               "autoZenMode", "forceReadable"}

SliderFields == {"vignetteOpacity", "vignetteScaleLinear", "vignetteScaleRadial"}

Fields == BoolFields \cup SliderFields \cup {"animationDuration"}

DEFAULT_SETTINGS ==
    [animationDuration   |-> "2",
     showHeader          |-> FALSE,
     showScroll          |-> FALSE,
     showGraphControls   |-> FALSE,
     autoZenMode         |-> FALSE,
     forceReadable       |-> TRUE,
     vignetteOpacity     |-> "0.75",
     vignetteScaleLinear |-> "20",
     vignetteScaleRadial |-> "75"]

\* Before loadSettings() has run, this.settings is undefined.
Undefined == [f \in Fields |-> "undefined"]

\* Object.assign with the sources in the wrong order.
ObjectAssignReversed(a, b) ==
    [f \in (DOMAIN a) \cup (DOMAIN b) |-> IF f \in DOMAIN a THEN a[f] ELSE b[f]]

\* Object.assign({}, a, b): the fields of b override those of a.
ObjectAssign(a, b) ==
    [f \in (DOMAIN a) \cup (DOMAIN b) |-> IF f \in DOMAIN b THEN b[f] ELSE a[f]]

\* loadData() resolves to null when nothing was stored; Object.assign skips null.
LoadedSettings(st) ==
    IF st.present THEN ObjectAssign(DEFAULT_SETTINGS, st.rec) ELSE DEFAULT_SETTINGS

\* A value other than the default for each field, as a stored record or a
\* settings control can supply it.
OtherValue ==
    [animationDuration   |-> "1.2",
     showHeader          |-> TRUE,
     showScroll          |-> TRUE,
     showGraphControls   |-> TRUE,
     autoZenMode         |-> TRUE,
     forceReadable       |-> FALSE,
     vignetteOpacity     |-> "0.3",
     vignetteScaleLinear |-> "5",
     vignetteScaleRadial |-> "100"]

Restrict(r, S) == [f \in S |-> r[f]]

NoData == [present |-> FALSE, rec |-> Restrict(OtherValue, {})]

\* Every stored record holding a subset of the fields.
AllRecords ==
    {NoData} \cup
    {[present |-> TRUE, rec |-> Restrict(OtherValue, S)] : S \in SUBSET Fields}

\* The stored records the controller is explored from.
StartRecords ==
    {NoData,
     [present |-> TRUE, rec |-> Restrict(OtherValue, {"autoZenMode"})],
     [present |-> TRUE, rec |-> Restrict(OtherValue, {"autoZenMode", "showHeader", "forceReadable"})],
     [present |-> TRUE, rec |-> Restrict(OtherValue, BoolFields)]}

\* Number(value) of the fade-in text field.
Numerals == {"1.2"}
TextInputs == Numerals \cup {"", "abc"}
Number(text) ==
    IF text \in Numerals THEN text ELSE IF text = "" THEN "0" ELSE "NaN"

\* The values a slider hands to onChange.
SliderValues ==
    [vignetteOpacity     |-> {"0.3", "0.75"},
     vignetteScaleLinear |-> {"5", "20"},
     vignetteScaleRadial |-> {"75", "100"}]

----------------------------------------------------------------------------
(* The workspace. *)

Leaves == {"l1", "l2"}
NoLeaf == "none"

\* type: getViewType(); item: the view is an ItemView; container: the leaf has
\* a containerEl; editor: the view has editMode.editorEl (and is the
\* workspace's activeEditor while its leaf is active); controls: the view has
\* dataEngine.controlsEl.
Kind(t, i, c, e, g) ==
    [type |-> t, item |-> i, container |-> c, editor |-> e, controls |-> g]

Markdown    == Kind("markdown", TRUE,  TRUE,  TRUE,  FALSE)
Image       == Kind("image",    TRUE,  TRUE,  FALSE, FALSE)
Graph       == Kind("graph",    TRUE,  TRUE,  FALSE, TRUE)
GraphBare   == Kind("graph",    TRUE,  TRUE,  FALSE, FALSE)  \* no dataEngine
Empty       == Kind("empty",    TRUE,  TRUE,  FALSE, FALSE)
Custom      == Kind("custom",   FALSE, TRUE,  TRUE,  FALSE)  \* a View, not an ItemView
NoContainer == Kind("markdown", TRUE,  FALSE, TRUE,  FALSE)  \* leaf.containerEl absent

ViewKinds == {Markdown, Image, Graph, GraphBare, Empty, Custom, NoContainer}

Panes(k1, k2) == [l \in Leaves |-> IF l = "l1" THEN k1 ELSE k2]

\* The workspaces explored: every kind of view beside an empty pane, and
\* pairs of panes that can both be presented.
Workspaces ==
    {Panes(k, Empty) : k \in ViewKinds}
    \cup {Panes(Markdown, Graph), Panes(Markdown, Custom),
          Panes(Image, GraphBare), Panes(Graph, NoContainer)}

\* editor.getValue(): a sequence of characters.
Whitespace == {" ", "\n"}
Texts == {<< >>, <<" ", "\n">>, <<" ", "a", "\n">>}

RECURSIVE trimStart(_)
trimStart(s) ==
    IF s # << >> /\ Head(s) \in Whitespace THEN trimStart(Tail(s)) ELSE s

RECURSIVE trimEnd(_)
trimEnd(s) ==
    IF s # << >> /\ s[Len(s)] \in Whitespace
    THEN trimEnd(SubSeq(s, 1, Len(s) - 1)) ELSE s

\* String.prototype.trim
trim(s) == trimEnd(trimStart(s))

----------------------------------------------------------------------------
(* The DOM. *)

NoClasses == [l \in Leaves |-> {}]
UnsetRoot == [fadeIn |-> "", opacity |-> "", linear |-> "", radial |-> ""]

\* document.fullscreenElement
fullscreenElement == IF fsStack = << >> THEN NoLeaf ELSE fsStack[Len(fsStack)]

Without(s, e) == SelectSeq(s, LAMBDA x : x # e)

HistNone == [op |-> "init", leaf |-> NoLeaf, out |-> "", text |-> << >>, field |-> ""]
Hist(op, leaf, out) == [op |-> op, leaf |-> leaf, out |-> out, text |-> << >>, field |-> ""]

----------------------------------------------------------------------------
(* Prozen.addStyles and Prozen.removeStyles. *)

VignetteClassSwapped(isGraph) ==
    IF isGraph THEN "vignette-linear" ELSE "vignette-radial"

VignetteClass(isGraph) ==
    IF isGraph THEN "vignette-radial" ELSE "vignette-linear"

\* addStyles putting "animate" on the header whatever showHeader is.
addStylesHeaderAnimates(leaf) ==
    LET isGraph == view[leaf].type = "graph"
        graphControls == isGraph /\ view[leaf].controls
    IN  /\ contentCls' = [contentCls EXCEPT ![leaf] =
               @ \cup (IF ~settings.showScroll THEN {"noscroll"} ELSE {})
                 \cup {VignetteClass(isGraph)} \cup {"animate"}]
        /\ controlsCls' = [controlsCls EXCEPT ![leaf] =
               IF isGraph /\ ~settings.showGraphControls /\ graphControls
               THEN @ \cup {"hide"} ELSE @]
        /\ editorCls' = [editorCls EXCEPT ![leaf] =
               IF ~isGraph /\ settings.forceReadable /\ view[leaf].editor
               THEN @ \cup {"is-readable-line-width"} ELSE @]
        /\ headerCls' = [headerCls EXCEPT ![leaf] =
               @ \cup {"animate"} \cup (IF settings.showHeader THEN {} ELSE {"hide"})]

addStyles(leaf) ==
    LET isGraph == view[leaf].type = "graph"
        graphControls == isGraph /\ view[leaf].controls
    IN  /\ contentCls' = [contentCls EXCEPT ![leaf] =
               @ \cup (IF ~settings.showScroll THEN {"noscroll"} ELSE {})
                 \cup {VignetteClass(isGraph)} \cup {"animate"}]
        /\ controlsCls' = [controlsCls EXCEPT ![leaf] =
               IF isGraph /\ ~settings.showGraphControls /\ graphControls
               THEN @ \cup {"hide"} ELSE @]
        /\ editorCls' = [editorCls EXCEPT ![leaf] =
               IF ~isGraph /\ settings.forceReadable /\ view[leaf].editor
               THEN @ \cup {"is-readable-line-width"} ELSE @]
        /\ headerCls' = [headerCls EXCEPT ![leaf] =
               @ \cup {IF settings.showHeader THEN "animate" ELSE "hide"}]

\* removeStyles with "noscroll" left out of the classes it removes.
removeStylesKeepsNoscroll(leaf) ==
    LET isGraph == view[leaf].type = "graph"
        graphControls == isGraph /\ view[leaf].controls
    IN  /\ controlsCls' = [controlsCls EXCEPT ![leaf] =
               IF graphControls THEN @ \ {"animate", "hide"} ELSE @]
        /\ editorCls' = [editorCls EXCEPT ![leaf] =
               IF ~isGraph /\ ~hostReadable /\ view[leaf].editor
               THEN @ \ {"is-readable-line-width"} ELSE @]
        /\ contentCls' = [contentCls EXCEPT ![leaf] =
               @ \ {"vignette-linear", "vignette-radial", "animate"}]
        /\ headerCls' = [headerCls EXCEPT ![leaf] = @ \ {"animate", "hide"}]

\* removeStyles without the test of the host's readableLineLength setting.
removeStylesIgnoresConfig(leaf) ==
    LET isGraph == view[leaf].type = "graph"
        graphControls == isGraph /\ view[leaf].controls
    IN  /\ controlsCls' = [controlsCls EXCEPT ![leaf] =
               IF graphControls THEN @ \ {"animate", "hide"} ELSE @]
        /\ editorCls' = [editorCls EXCEPT ![leaf] =
               IF ~isGraph /\ view[leaf].editor
               THEN @ \ {"is-readable-line-width"} ELSE @]
        /\ contentCls' = [contentCls EXCEPT ![leaf] =
               @ \ {"vignette-linear", "vignette-radial", "animate", "noscroll"}]
        /\ headerCls' = [headerCls EXCEPT ![leaf] = @ \ {"animate", "hide"}]

\* removeStyles undoing only what addStyles would add under the settings as
\* they are now.
removeStylesMirrorsSettings(leaf) ==
    LET isGraph == view[leaf].type = "graph"
        graphControls == isGraph /\ view[leaf].controls
    IN  /\ controlsCls' = [controlsCls EXCEPT ![leaf] =
               IF graphControls THEN @ \ {"animate", "hide"} ELSE @]
        /\ editorCls' = [editorCls EXCEPT ![leaf] =
               IF ~isGraph /\ ~hostReadable /\ view[leaf].editor
               THEN @ \ {"is-readable-line-width"} ELSE @]
        /\ contentCls' = [contentCls EXCEPT ![leaf] =
               @ \ ({"vignette-linear", "vignette-radial", "animate"}
                    \cup (IF ~settings.showScroll THEN {"noscroll"} ELSE {}))]
        /\ headerCls' = [headerCls EXCEPT ![leaf] =
               @ \ {IF settings.showHeader THEN "animate" ELSE "hide"}]

removeStyles(leaf) ==
    LET isGraph == view[leaf].type = "graph"
        graphControls == isGraph /\ view[leaf].controls
    IN  /\ controlsCls' = [controlsCls EXCEPT ![leaf] =
               IF graphControls THEN @ \ {"animate", "hide"} ELSE @]
        /\ editorCls' = [editorCls EXCEPT ![leaf] =
               IF ~isGraph /\ ~hostReadable /\ view[leaf].editor
               THEN @ \ {"is-readable-line-width"} ELSE @]
        /\ contentCls' = [contentCls EXCEPT ![leaf] =
               @ \ {"vignette-linear", "vignette-radial", "animate", "noscroll"}]
        /\ headerCls' = [headerCls EXCEPT ![leaf] = @ \ {"animate", "hide"}]

----------------------------------------------------------------------------
(* Prozen.fullscreenMode. *)

\* this.app.workspace.getActiveViewOfType(ItemView)?.leaf
activeItemLeaf ==
    IF active # NoLeaf /\ view[active].item THEN active ELSE NoLeaf

\* The path a call takes: "noop" (a guard returned), "enter" or "exit" (the two
\* branches, run to the end), "throwEnter" / "throwExit" (the leaf has no
\* containerEl, so containerEl.requestFullscreen(), respectively the
\* assignment to containerEl.onfullscreenchange, raises a TypeError).
\* Outcome without the guard on the "empty" view type.
OutcomeNoEmptyGuard ==
    LET leaf == activeItemLeaf
    IN  IF leaf = NoLeaf THEN "noop"
        ELSE IF fullscreenElement = NoLeaf
             THEN (IF view[leaf].container THEN "enter" ELSE "throwEnter")
             ELSE (IF view[leaf].container THEN "exit" ELSE "throwExit")

\* Outcome branching on this.isInZenMode in place of document.fullscreenElement.
OutcomeByZenState ==
    LET leaf == activeItemLeaf
    IN  IF leaf = NoLeaf THEN "noop"
        ELSE IF view[leaf].type = "empty" THEN "noop"
        ELSE IF ~isInZenMode
             THEN (IF view[leaf].container THEN "enter" ELSE "throwEnter")
             ELSE (IF view[leaf].container THEN "exit" ELSE "throwExit")

Outcome ==
    LET leaf == activeItemLeaf
    IN  IF leaf = NoLeaf THEN "noop"
        ELSE IF view[leaf].type = "empty" THEN "noop"
        ELSE IF fullscreenElement = NoLeaf
             THEN (IF view[leaf].container THEN "enter" ELSE "throwEnter")
             ELSE (IF view[leaf].container THEN "exit" ELSE "throwExit")

Resolvable == {"enter", "exit"}
Throws == {"throwEnter", "throwExit"}

\* The root style variables written from the defaults, not from this.settings.
RootFromDefaults ==
    [fadeIn  |-> DEFAULT_SETTINGS.animationDuration \o "s",
     opacity |-> DEFAULT_SETTINGS.vignetteOpacity \o "%",
     linear  |-> DEFAULT_SETTINGS.vignetteScaleLinear \o "%",
     radial  |-> DEFAULT_SETTINGS.vignetteScaleRadial \o "%"]

\* The four root.style.setProperty calls.
RootFromSettings ==
    [fadeIn  |-> settings.animationDuration \o "s",
     opacity |-> settings.vignetteOpacity \o "%",
     linear  |-> settings.vignetteScaleLinear \o "%",
     radial  |-> settings.vignetteScaleRadial \o "%"]

Request(leaf) == [kind |-> "request", el |-> leaf]
Exit == [kind |-> "exit", el |-> NoLeaf]

\* fullscreenMode() putting its handler on the container only when it enters.
fullscreenModeRegistersOnEnter(out) ==
    LET leaf == activeItemLeaf
    IN  CASE out = "noop" ->
               UNCHANGED <<domVars, hostVars, zenLeaf, zenAt>>
          [] out = "enter" ->
               /\ rootStyle' = RootFromSettings
               /\ hostOps' = Append(hostOps, Request(leaf))
               /\ addStyles(leaf)
               /\ handlers' = handlers \cup {leaf}
               /\ zenLeaf' = leaf
               /\ zenAt' = changes
               /\ UNCHANGED <<fsStack, events>>
          [] out = "throwEnter" ->
               /\ rootStyle' = RootFromSettings
               /\ UNCHANGED <<clsVars, hostVars, zenLeaf, zenAt>>
          [] out \in {"exit", "throwExit"} ->
               /\ rootStyle' = RootFromSettings
               /\ hostOps' = Append(hostOps, Exit)
               /\ removeStyles(leaf)
               /\ UNCHANGED <<handlers, fsStack, events, zenLeaf, zenAt>>

\* What a call changes, except isInZenMode (see ZenAfter).
fullscreenMode(out) ==
    LET leaf == activeItemLeaf
    IN  CASE out = "noop" ->
               UNCHANGED <<domVars, hostVars, zenLeaf, zenAt>>
          [] out = "enter" ->
               /\ rootStyle' = RootFromSettings
               /\ hostOps' = Append(hostOps, Request(leaf))
               /\ addStyles(leaf)
               /\ handlers' = handlers \cup {leaf}
               /\ zenLeaf' = leaf
               /\ zenAt' = changes
               /\ UNCHANGED <<fsStack, events>>
          [] out = "throwEnter" ->
               /\ rootStyle' = RootFromSettings
               /\ UNCHANGED <<clsVars, hostVars, zenLeaf, zenAt>>
          [] out = "exit" ->
               /\ rootStyle' = RootFromSettings
               /\ hostOps' = Append(hostOps, Exit)
               /\ removeStyles(leaf)
               /\ handlers' = handlers \cup {leaf}
               /\ UNCHANGED <<fsStack, events, zenLeaf, zenAt>>
          [] out = "throwExit" ->
               /\ rootStyle' = RootFromSettings
               /\ hostOps' = Append(hostOps, Exit)
               /\ removeStyles(leaf)
               /\ UNCHANGED <<handlers, fsStack, events, zenLeaf, zenAt>>

\* this.isInZenMode when the call returns (or throws).
ZenAfter(out) ==
    IF out = "enter" THEN TRUE
    ELSE IF out \in {"exit", "throwExit"} THEN FALSE
    ELSE isInZenMode

\* The call queues a host call.
Queues(out) == out \in {"enter", "exit", "throwExit"}

Clean(leaf) ==
    /\ contentCls[leaf] = {}
    /\ headerCls[leaf] = {}
    /\ controlsCls[leaf] = {}
    /\ editorCls[leaf] = {}

\* History of a toggle()/toggle() pair: stage 1 after a call with a resolvable
\* target made with ZenState Normal and none of the classes present, stage 2
\* right after the next plugin call when that is toggle() on the same target.
RtAfterToggle(out) ==
    LET leaf == activeItemLeaf
    IN  IF out \in Resolvable /\ rt.stage = 1 /\ rt.leaf = leaf
        THEN [stage |-> 2, leaf |-> leaf, first |-> rt.first]
        ELSE IF out \in Resolvable /\ ~isInZenMode /\ Clean(leaf)
        THEN [stage |-> 1, leaf |-> leaf, first |-> out]
        ELSE [stage |-> 0, leaf |-> NoLeaf, first |-> ""]

RtReset == [stage |-> 0, leaf |-> NoLeaf, first |-> ""]
RtAfterHost == IF rt.stage = 2 THEN RtReset ELSE rt

\* The "Zen mode" command.
Toggle ==
    /\ loaded
    /\ LET out == Outcome
       IN  /\ Queues(out) => Len(hostOps) < MaxPending
           /\ fullscreenMode(out)
           /\ isInZenMode' = ZenAfter(out)
           /\ triggered' = (triggered /\ out \notin {"exit", "throwExit"})
           /\ last' = Hist("toggle", activeItemLeaf, out)
           /\ rt' = RtAfterToggle(out)
    /\ UNCHANGED <<prefVars, view, hostReadable, active>>

----------------------------------------------------------------------------
(* Prozen.handleEditorChange, on the workspace's "editor-change" event. *)

\* (this.app.workspace as any).activeEditor?.editor
activeEditor == active # NoLeaf /\ view[active].editor

\* Acts without the test of this.isInZenMode.
ActsIgnoresZen(text) ==
    /\ settings.autoZenMode
    /\ active # NoLeaf
    /\ view[active].type # "empty"
    /\ activeEditor
    /\ Len(trim(text)) > 0

\* The guards of handleEditorChange all pass.
Acts(text) ==
    /\ settings.autoZenMode
    /\ ~isInZenMode
    /\ active # NoLeaf
    /\ view[active].type # "empty"
    /\ activeEditor
    /\ Len(trim(text)) > 0

handleEditorChange(text) ==
    LET out == Outcome
    IN  IF ~Acts(text)
        THEN /\ UNCHANGED <<domVars, hostVars, zenLeaf, zenAt, isInZenMode, triggered>>
             /\ last' = [Hist("editorChange", active, "skip") EXCEPT !.text = text]
        ELSE /\ Queues(out) => Len(hostOps) < MaxPending
             /\ fullscreenMode(out)
             /\ isInZenMode' = IF out \in Throws THEN ZenAfter(out) ELSE TRUE
             /\ triggered' = TRUE
             /\ last' = [Hist("editorChange", active, out) EXCEPT !.text = text]

EditorChange ==
    /\ loaded
    /\ \E text \in Texts : handleEditorChange(text)
    /\ rt' = RtReset
    /\ UNCHANGED <<prefVars, view, hostReadable, active>>

----------------------------------------------------------------------------
(* The host. *)

\* The user (or the host) makes another leaf, or none, the active one.
SetActive ==
    /\ \E l \in (Leaves \cup {NoLeaf}) \ {active} :
          /\ active' = l
          /\ last' = Hist("setActive", NoLeaf, "")
    /\ rt' = RtReset
    /\ UNCHANGED <<prefVars, isInZenMode, view, hostReadable, domVars, hostVars, zenLeaf, zenAt, triggered>>

\* The host acts on the oldest requestFullscreen() / exitFullscreen() call.
HostAct ==
    /\ hostOps # << >>
    /\ LET op == Head(hostOps)
           top == fullscreenElement
       IN  /\ hostOps' = Tail(hostOps)
           /\ last' = Hist("host", NoLeaf, "")
           /\ IF op.kind = "request"
              THEN IF top = op.el
                   THEN UNCHANGED <<fsStack, events>>
                   ELSE /\ Len(events) < MaxPending
                        /\ fsStack' = Append(Without(fsStack, op.el), op.el)
                        /\ events' = Append(events, op.el)
              ELSE IF top = NoLeaf
                   THEN UNCHANGED <<fsStack, events>>
                   ELSE /\ Len(events) < MaxPending
                        /\ fsStack' = SubSeq(fsStack, 1, Len(fsStack) - 1)
                        /\ events' = Append(events, top)
    /\ rt' = RtAfterHost
    /\ UNCHANGED <<prefVars, isInZenMode, view, hostReadable, active, domVars, handlers, zenLeaf, zenAt, triggered>>

\* Full-screen ends by a mechanism outside the plugin (Escape, the OS).
ExternalExit ==
    /\ fsStack # << >>
    /\ Len(events) < MaxPending
    /\ fsStack' = << >>
    /\ events' = Append(events, fullscreenElement)
    /\ last' = Hist("externalExit", NoLeaf, "")
    /\ rt' = RtAfterHost
    /\ UNCHANGED <<prefVars, isInZenMode, view, hostReadable, active, domVars, handlers, hostOps, zenLeaf, zenAt, triggered>>

\* onfullscreenchange without the assignment to this.isInZenMode.
onfullscreenchangeKeepsZen(leaf) ==
    IF fullscreenElement = NoLeaf
    THEN /\ removeStyles(leaf)
         /\ UNCHANGED <<isInZenMode, triggered>>
         /\ last' = Hist("deliver", leaf, "exit")
    ELSE /\ UNCHANGED <<clsVars, isInZenMode, triggered>>
         /\ last' = Hist("deliver", leaf, "ignored")

\* The handler fullscreenMode() put on a leaf's containerEl.
onfullscreenchange(leaf) ==
    IF fullscreenElement = NoLeaf
    THEN /\ removeStyles(leaf)
         /\ isInZenMode' = FALSE
         /\ triggered' = FALSE
         /\ last' = Hist("deliver", leaf, "exit")
    ELSE /\ UNCHANGED <<clsVars, isInZenMode, triggered>>
         /\ last' = Hist("deliver", leaf, "ignored")

\* The oldest fullscreenchange event is dispatched at its target.
Deliver ==
    /\ events # << >>
    /\ LET target == Head(events)
       IN  /\ events' = Tail(events)
           /\ IF target \in handlers
              THEN onfullscreenchange(target)
              ELSE /\ UNCHANGED <<clsVars, isInZenMode, triggered>>
                   /\ last' = Hist("deliver", target, "nohandler")
    /\ rt' = RtAfterHost
    /\ UNCHANGED <<prefVars, view, hostReadable, active, rootStyle, handlers, fsStack, hostOps, zenLeaf, zenAt>>

----------------------------------------------------------------------------
(* The preference store. *)

ctlVars == <<isInZenMode, view, hostReadable, active, domVars, hostVars, zenLeaf, zenAt, triggered>>

\* onload(): await this.loadSettings()
Load ==
    /\ ~loaded
    /\ loaded' = TRUE
    /\ settings' = LoadedSettings(stored)
    /\ last' = Hist("load", NoLeaf, "")
    /\ UNCHANGED <<stored, saves, changes, ctlVars, rt>>

\* saveSettings() called before the field is written.
saveSettingsStale(s) == Append(saves, settings)

\* this.saveData(this.settings): the record handed to the host.
saveSettings(s) == Append(saves, s)

\* An onChange handler that also leaves zen mode.
onChangeLeavesZen(f, value) ==
    /\ loaded
    /\ changes < MaxChanges
    /\ changes' = changes + 1
    /\ settings' = [settings EXCEPT ![f] = value]
    /\ saves' = saveSettings(settings')
    /\ last' = [Hist("change", NoLeaf, "") EXCEPT !.field = f]
    /\ rt' = RtReset
    /\ isInZenMode' = FALSE
    /\ UNCHANGED <<loaded, stored, view, hostReadable, active, domVars, hostVars, zenLeaf, zenAt, triggered>>

\* An onChange handler: write the field, then saveSettings().
onChange(f, value) ==
    /\ loaded
    /\ changes < MaxChanges
    /\ changes' = changes + 1
    /\ settings' = [settings EXCEPT ![f] = value]
    /\ saves' = saveSettings(settings')
    /\ last' = [Hist("change", NoLeaf, "") EXCEPT !.field = f]
    /\ rt' = RtReset
    /\ UNCHANGED <<loaded, stored, ctlVars>>

ChangeToggle == \E f \in BoolFields : onChange(f, ~settings[f])

ChangeSlider ==
    \E f \in SliderFields : \E v \in SliderValues[f] \ {settings[f]} : onChange(f, v)

ChangeText == \E text \in TextInputs : onChange("animationDuration", Number(text))

\* A saveData() call completes: the host has written the record.
SaveDone ==
    /\ saves # << >>
    /\ stored' = [present |-> TRUE, rec |-> Head(saves)]
    /\ saves' = Tail(saves)
    /\ last' = Hist("saved", NoLeaf, "")
    /\ UNCHANGED <<loaded, settings, changes, ctlVars, rt>>

----------------------------------------------------------------------------
(* Specifications. *)

InitFrom(records, views, readable) ==
    /\ loaded = FALSE
    /\ settings = Undefined
    /\ stored \in records
    /\ saves = << >>
    /\ changes = 0
    /\ isInZenMode = FALSE
    /\ view \in views
    /\ hostReadable \in readable
    /\ active \in Leaves \cup {NoLeaf}
    /\ rootStyle = UnsetRoot
    /\ contentCls = NoClasses
    /\ headerCls = NoClasses
    /\ editorCls = [l \in Leaves |->
                      IF view[l].editor /\ hostReadable
                      THEN {"is-readable-line-width"} ELSE {}]
    /\ controlsCls = NoClasses
    /\ handlers = {}
    /\ fsStack = << >>
    /\ hostOps = << >>
    /\ events = << >>
    /\ zenLeaf = NoLeaf
    /\ zenAt = 0
    /\ triggered = FALSE
    /\ last = HistNone
    /\ rt = RtReset

\* The whole plugin, in a workspace of one presentable pane.
Init ==
    InitFrom({[present |-> TRUE, rec |-> Restrict(OtherValue, {"autoZenMode"})]},
             {Panes(Markdown, Empty)}, {FALSE})

Next ==
    \/ Load
    \/ Toggle
    \/ EditorChange
    \/ SetActive
    \/ HostAct
    \/ ExternalExit
    \/ Deliver
    \/ ChangeToggle
    \/ ChangeSlider
    \/ ChangeText
    \/ SaveDone

Spec == Init /\ [][Next]_vars

\* The controller under fixed preferences, in every workspace.
ZenInit == InitFrom(StartRecords, Workspaces, BOOLEAN)

ZenNext ==
    \/ Load
    \/ Toggle
    \/ EditorChange
    \/ SetActive
    \/ HostAct
    \/ ExternalExit
    \/ Deliver

SpecZen == ZenInit /\ [][ZenNext]_vars

\* The preference store alone, from every stored record.
PrefsInit == InitFrom(AllRecords, {Panes(Empty, Empty)}, {FALSE})

PrefsNext ==
    \/ Load
    \/ ChangeToggle
    \/ ChangeSlider
    \/ ChangeText
    \/ SaveDone

SpecPrefs == PrefsInit /\ [][PrefsNext]_vars

\* The controller on one presentable pane while the settings change.
StyleInit ==
    InitFrom({[present |-> TRUE, rec |-> Restrict(OtherValue, {"autoZenMode"})]},
             {Panes(Markdown, Empty), Panes(Graph, Empty)}, {FALSE})

StyleNext ==
    \/ Load
    \/ Toggle
    \/ EditorChange
    \/ HostAct
    \/ ExternalExit
    \/ Deliver
    \/ ChangeToggle
    \/ ChangeSlider
    \/ ChangeText

SpecStyle == StyleInit /\ [][StyleNext]_vars

----------------------------------------------------------------------------
(* Properties. *)

PluginClasses == {"noscroll", "vignette-linear", "vignette-radial", "animate"}
IsGraph(l) == view[l].type = "graph"

\* addStyles has been applied to the leaf and not undone.
Styled(l) ==
    /\ "animate" \in contentCls[l]
    /\ contentCls[l] \cap {"vignette-linear", "vignette-radial"} # {}
    /\ headerCls[l] # {}

\* What removeStyles leaves behind on the leaf.
ExitApplied(l) ==
    /\ contentCls[l] \cap PluginClasses = {}
    /\ headerCls[l] \cap {"animate", "hide"} = {}
    /\ controlsCls[l] \cap {"animate", "hide"} = {}
    /\ (~IsGraph(l) /\ ~hostReadable) => "is-readable-line-width" \notin editorCls[l]

Quiescent == hostOps = << >> /\ events = << >>

\* C1 as stated: right after the second of two successive toggle() calls on the
\* same resolvable target, the first made with ZenState Normal and none of the
\* plugin's classes present, ZenState is Normal again and every class is gone.
C1_RoundTrip ==
    rt.stage = 2 => (~isInZenMode /\ Clean(rt.leaf))

\* C1 amended: the round trip holds when the host reports full-screen at the
\* second call (the call takes the exit branch); when the host does not yet
\* report full-screen the second call enters again and ZenState stays Zen.
C1_RoundTripWhenFullscreen ==
    rt.stage = 2 =>
        /\ last.out = "exit" => (~isInZenMode /\ Clean(rt.leaf))
        /\ last.out = "enter" => (isInZenMode /\ Styled(rt.leaf))

C1_Witness ==
    /\ rt.stage = 2
    /\ rt.first = "enter"
    /\ last.out = "exit"
    /\ view[rt.leaf] = Markdown
    /\ settings.forceReadable
    /\ ~settings.showScroll
    /\ ~isInZenMode

\* C2: with no full-screen request, exit or notification outstanding, ZenState
\* is Zen exactly when the host reports full-screen and the enter-zen style set
\* is applied to the view zen was entered on.
C2_ZenIffPresented ==
    Quiescent =>
        (isInZenMode <=>
            (fullscreenElement # NoLeaf /\ zenLeaf # NoLeaf /\ Styled(zenLeaf)))

\* C3: toggle() with no active presentable view, or on the empty-placeholder
\* view type, changes neither ZenState, the root style variables, any class,
\* the full-screen state nor the registered handlers.
C3_NoTargetNoop ==
    [][(/\ last'.op = "toggle"
        /\ \/ activeItemLeaf = NoLeaf
           \/ view[activeItemLeaf].type = "empty")
       => UNCHANGED <<isInZenMode, rootStyle, clsVars, handlers, fsStack, hostOps, events>>]_vars

C3_Witness ==
    /\ last.op = "toggle"
    /\ last.out = "noop"
    /\ active # NoLeaf
    /\ view[active].type = "empty"
    /\ isInZenMode
    /\ fullscreenElement # NoLeaf

\* C4: when a full-screen-change notification is delivered while the host
\* reports that full-screen has ended, a handler of the plugin is on the
\* notification's target (zen was entered on it), and after it has run ZenState
\* is Normal and the exit-zen style set is applied to that view.
C4_ExitNotified ==
    [][(/\ last'.op = "deliver"
        /\ events # << >>
        /\ events' = Tail(events)
        /\ fullscreenElement = NoLeaf)
       => /\ Head(events) \in handlers
          /\ last'.leaf = Head(events)
          /\ (~isInZenMode /\ ExitApplied(last.leaf))']_vars

C4_Witness ==
    /\ last.op = "deliver"
    /\ last.out = "exit"
    /\ active # last.leaf
    /\ zenLeaf = last.leaf
    /\ ExitApplied(last.leaf)
    /\ ~isInZenMode

\* C5 as stated: no step outside a toggle() invocation changes ZenState. (A
\* change made by the toggle() the auto-zen trigger invokes, which enters zen
\* mode, is a change by toggle().)
C5_OnlyToggleMutates ==
    [][isInZenMode' # isInZenMode =>
          \/ last'.op = "toggle"
          \/ last'.op = "editorChange" /\ last'.out = "enter"]_vars

\* C5 amended: ZenState is changed only by toggle(), by the auto-zen trigger
\* and by the full-screen-change handler; a settings change, load, a completed
\* save, an active-view change and the host's full-screen steps never change it.
C5_ZenMutators ==
    [][isInZenMode' # isInZenMode
       => last'.op \in {"toggle", "editorChange", "deliver"}]_vars

\* The auto-zen trigger's own assignment set ZenState after the toggle() it
\* called had taken the exit branch.
C5_Witness ==
    /\ last.op = "editorChange"
    /\ last.out = "exit"
    /\ isInZenMode
    /\ changes > 0

\* C6: a content-changed notification received while ZenState is Zen, or while
\* auto-zen is disabled, or while the text is empty after trimming, or while
\* there is no active view or it is the empty-placeholder type, does nothing.
C6_TriggerGuards ==
    [][(/\ last'.op = "editorChange"
        /\ \/ isInZenMode
           \/ ~settings.autoZenMode
           \/ Len(trim(last'.text)) = 0
           \/ active = NoLeaf
           \/ view[active].type = "empty")
       => /\ last'.out = "skip"
          /\ UNCHANGED <<isInZenMode, rootStyle, clsVars, handlers, fsStack, hostOps, events>>]_vars

C6_Witness ==
    /\ last.op = "editorChange"
    /\ last.out = "skip"
    /\ isInZenMode
    /\ settings.autoZenMode
    /\ Len(trim(last.text)) > 0
    /\ activeEditor
    /\ view[active].item

\* C7: the content element of a graph view never carries vignette-linear and
\* that of any other view never carries vignette-radial, and right after the
\* enter-zen style set is applied the view's own vignette class is present.
C7_OneVignette ==
    /\ \A l \in Leaves :
          IF IsGraph(l) THEN "vignette-linear" \notin contentCls[l]
                        ELSE "vignette-radial" \notin contentCls[l]
    /\ last.out = "enter" =>
          IF IsGraph(zenLeaf) THEN "vignette-radial" \in contentCls[zenLeaf]
                              ELSE "vignette-linear" \in contentCls[zenLeaf]

C7_Witness ==
    /\ last.out = "enter"
    /\ IsGraph(zenLeaf)
    /\ contentCls[zenLeaf] \cap {"vignette-linear", "vignette-radial"} = {"vignette-radial"}

\* C8: applying the exit-zen style set to a non-graph view removes
\* is-readable-line-width from the editing surface when the host's
\* readable-line-length setting is off and leaves the surface's classes as they
\* were when it is on; on a graph view the surface is never touched.
C8_ReadableWidthOnExit ==
    [][(/\ last'.out \in {"exit", "throwExit"}
        /\ last'.op \in {"toggle", "editorChange", "deliver"}
        /\ last'.leaf \in Leaves)
       => LET l == last'.leaf
          IN  /\ (~IsGraph(l) /\ ~hostReadable) =>
                    "is-readable-line-width" \notin editorCls'[l]
              /\ (~IsGraph(l) /\ hostReadable) => editorCls'[l] = editorCls[l]
              /\ IsGraph(l) => editorCls' = editorCls]_vars

C8_Witness ==
    /\ last.out = "exit"
    /\ last.leaf \in Leaves
    /\ view[last.leaf] = Markdown
    /\ hostReadable
    /\ "is-readable-line-width" \in editorCls[last.leaf]

\* C9: right after load() every field holds the stored value when the stored
\* record has the field and the default otherwise; with no stored record the
\* settings are the defaults.
C9_LoadMerges ==
    last.op = "load" =>
        /\ DOMAIN settings = Fields
        /\ \A f \in Fields :
              settings[f] = IF stored.present /\ f \in DOMAIN stored.rec
                            THEN stored.rec[f] ELSE DEFAULT_SETTINGS[f]
        /\ ~stored.present => settings = DEFAULT_SETTINGS

C9_Witness ==
    /\ last.op = "load"
    /\ stored.present
    /\ DOMAIN stored.rec = {"showHeader", "vignetteOpacity"}
    /\ settings.showHeader
    /\ settings.vignetteOpacity = "0.3"
    /\ settings.vignetteScaleLinear = "20"

PluginCall == last.op \in {"toggle", "editorChange"} /\ last.out \in Resolvable

\* C11 as stated: at most one full-screen-change handler of the plugin is live,
\* and right after a toggle() call on a resolvable target it is the one that
\* call registered.
C11_SingleHandler ==
    /\ Cardinality(handlers) <= 1
    /\ PluginCall => handlers = {last.leaf}

\* C11 amended: the handler is a property of the target's container element,
\* so a registration replaces only the handler of that container. Right after
\* a toggle() call on a resolvable target that container's handler is live,
\* only containers of resolvable targets ever carry one, and the handlers on
\* the containers of views toggled earlier stay live.
C11_HandlerPerContainer ==
    /\ PluginCall => last.leaf \in handlers
    /\ \A l \in handlers :
          view[l].item /\ view[l].container /\ view[l].type # "empty"

C11_Witness ==
    /\ last.op = "toggle"
    /\ last.out = "exit"
    /\ handlers = Leaves
    /\ zenLeaf # last.leaf

\* toggle() reached the statements after its two guards.
PastGuards ==
    /\ activeItemLeaf # NoLeaf
    /\ view[activeItemLeaf].type # "empty"

\* C12: toggle() on a view whose container element is absent raises no error
\* and leaves ZenState, the root style variables, every class and the
\* full-screen state (requests included) as they were.
C12_NoContainerNoop ==
    [][(/\ last'.op = "toggle"
        /\ PastGuards
        /\ ~view[activeItemLeaf].container)
       => /\ last'.out \notin Throws
          /\ UNCHANGED <<isInZenMode, rootStyle, clsVars, fsStack, hostOps, events>>]_vars

\* C13: toggle() on a resolvable target branches on the host-reported
\* full-screen state alone. Not full-screen: full-screen is requested on the
\* target, the enter-zen style set is applied, ZenState becomes Zen.
\* Full-screen: exit is requested, the exit-zen style set is applied, ZenState
\* becomes Normal. ZenState before the call plays no part.
C13_BranchOnHostState ==
    [][(/\ last'.op = "toggle"
        /\ PastGuards
        /\ view[activeItemLeaf].container)
       => LET leaf == activeItemLeaf
          IN  /\ last'.leaf = leaf
              /\ IF fullscreenElement = NoLeaf
                 THEN /\ hostOps' = Append(hostOps, [kind |-> "request", el |-> leaf])
                      /\ (isInZenMode /\ Styled(last.leaf))'
                 ELSE /\ hostOps' = Append(hostOps, [kind |-> "exit", el |-> NoLeaf])
                      /\ (~isInZenMode /\ ExitApplied(last.leaf))']_vars

\* The enter branch taken with ZenState already Zen: the call before it
\* entered too and its request is still pending.
C13_Witness ==
    /\ last.op = "toggle"
    /\ last.out = "enter"
    /\ rt.stage = 2
    /\ rt.first = "enter"
    /\ hostOps = <<Request(last.leaf), Request(last.leaf)>>
    /\ fullscreenElement = NoLeaf
    /\ isInZenMode

\* C14: on every content-changed notification on which the auto-zen trigger
\* acts, ZenState is already Zen when the toggle() it invoked returns, so the
\* trigger's own assignment changes nothing.
C14_AssignmentRedundant ==
    [][(/\ last'.op = "editorChange"
        /\ last'.out # "skip"
        /\ last'.out \notin Throws)
       => ZenAfter(last'.out)]_vars

\* C15: right after every toggle() call on a resolvable target, entering or
\* exiting, the four root style variables are the fade duration in seconds and
\* the vignette opacity and the two vignette scales as percentages, taken from
\* the settings as they are at the call.
C15_RootFollowsSettings ==
    PluginCall =>
        /\ rootStyle.fadeIn = settings.animationDuration \o "s"
        /\ rootStyle.opacity = settings.vignetteOpacity \o "%"
        /\ rootStyle.linear = settings.vignetteScaleLinear \o "%"
        /\ rootStyle.radial = settings.vignetteScaleRadial \o "%"

\* An exit that follows a change of the opacity slider.
C15_Witness ==
    /\ last.op = "toggle"
    /\ last.out = "exit"
    /\ changes > 0
    /\ settings.vignetteOpacity # DEFAULT_SETTINGS.vignetteOpacity
    /\ rootStyle.opacity = "0.3%"
    /\ rootStyle.fadeIn = "2s"

\* C16: what a call of the enter-zen style set adds to the view's elements is
\* fixed by the settings and the view type. The content element gains animate,
\* its vignette class, and noscroll exactly when showScroll is off; the header
\* gains animate when showHeader is on and hide otherwise, never both; on a
\* view other than the graph the editing surface, if there is one, gains
\* is-readable-line-width exactly when forceReadable is on; on a graph view the
\* controls element, if there is one, gains hide exactly when showGraphControls
\* is off. Nothing else is added and no other view is touched.
C16_EnterClasses ==
    [][(/\ last'.op \in {"toggle", "editorChange"}
        /\ last'.out = "enter")
       => LET l == last'.leaf
              vignette == IF IsGraph(l) THEN "vignette-radial" ELSE "vignette-linear"
          IN  /\ l \in Leaves
              /\ contentCls' = [contentCls EXCEPT ![l] =
                     @ \cup {"animate", vignette}
                       \cup (IF settings.showScroll THEN {} ELSE {"noscroll"})]
              /\ headerCls' = [headerCls EXCEPT ![l] =
                     @ \cup (IF settings.showHeader THEN {"animate"} ELSE {"hide"})]
              /\ editorCls' = [editorCls EXCEPT ![l] =
                     @ \cup (IF ~IsGraph(l) /\ view[l].editor /\ settings.forceReadable
                             THEN {"is-readable-line-width"} ELSE {})]
              /\ controlsCls' = [controlsCls EXCEPT ![l] =
                     @ \cup (IF IsGraph(l) /\ view[l].controls /\ ~settings.showGraphControls
                             THEN {"hide"} ELSE {})]]_vars

\* Zen entered on a graph view with its controls hidden and its header hidden.
C16_Witness ==
    /\ last.out = "enter"
    /\ last.leaf \in Leaves
    /\ view[last.leaf] = Graph
    /\ ~settings.showGraphControls
    /\ controlsCls[last.leaf] = {"hide"}
    /\ headerCls[last.leaf] = {"hide"}
    /\ contentCls[last.leaf] = {"animate", "vignette-radial", "noscroll"}
    /\ editorCls[last.leaf] = {}

\* C17: whenever the auto-zen trigger acts, the toggle() it invokes does not
\* take the exit direction: it requests no exit from full-screen and removes no
\* class, also when the host reports full-screen while ZenState is Normal.
C17_TriggerEnters ==
    [][(/\ last'.op = "editorChange"
        /\ last'.out # "skip")
       => /\ last'.out \notin {"exit", "throwExit"}
          /\ hostOps' # Append(hostOps, [kind |-> "exit", el |-> NoLeaf])
          /\ \A l \in Leaves :
                /\ contentCls[l] \subseteq contentCls'[l]
                /\ headerCls[l] \subseteq headerCls'[l]]_vars

\* C18: once the auto-zen trigger has acted, every content-changed
\* notification does nothing until toggle() takes the exit branch or the
\* full-screen-change handler sets ZenState to Normal; two acting triggers
\* never follow one another without such a reset between them.
C18_TriggerOnce ==
    [][(/\ last'.op = "editorChange"
        /\ triggered)
       => /\ last'.out = "skip"
          /\ UNCHANGED <<isInZenMode, rootStyle, clsVars, handlers, fsStack, hostOps, events>>]_vars

\* C19: right after the exit-zen style set has been applied to a view, by
\* toggle() or by the full-screen-change handler, its content element carries
\* none of noscroll, vignette-linear, vignette-radial and animate and its
\* header neither animate nor hide, whatever the settings are now and were
\* when the enter-zen style set was applied.
C19_ExitCleansAnySettings ==
    (/\ last.op \in {"toggle", "editorChange", "deliver"}
     /\ last.out \in {"exit", "throwExit"}
     /\ last.leaf \in Leaves)
    => /\ contentCls[last.leaf] \cap
              {"noscroll", "vignette-linear", "vignette-radial", "animate"} = {}
       /\ headerCls[last.leaf] \cap {"animate", "hide"} = {}

\* Zen was entered on the view with showScroll off, showScroll was switched on
\* afterwards, and then the exit-zen style set was applied to the same view.
C19_Witness ==
    /\ last.op \in {"toggle", "deliver"}
    /\ last.out = "exit"
    /\ last.leaf = zenLeaf
    /\ zenAt < changes
    /\ ~DEFAULT_SETTINGS.showScroll
    /\ settings.showScroll
    /\ changes = 1

====
